---- MODULE Spec2Model ----
(***************************************************************************)
(* Within-host progression of one disease episode (FRED, Infection.cc).    *)
(*                                                                         *)
(* An Infection owns a trajectory (a day-indexed curve of infectivity and  *)
(* symptomaticity), derives its transition dates from it, is advanced one  *)
(* day at a time by update(), and is reshaped by the modify_* operations.  *)
(*                                                                         *)
(* multp is a C++ double; it is represented by an integer count of halves  *)
(* (multp = m / MultpDen), and int conversions truncate.                   *)
(***************************************************************************)
EXTENDS Integers, Sequences, FiniteSets, TLC

VARIABLES
    disease,      \* the Disease this infection belongs to (parameters)
    trajectory,   \* the Trajectory owned by the infection: a sequence of points
    inf,          \* the fields of the Infection object
    host,         \* the host Person: infectious flag, notifications received per day
    clock,        \* the simulation day of the next update() call
    last,         \* the last operation called: name, arguments, outcome, notifications
    calls,        \* number of calls other than update() made so far
    pc,           \* position of the driver
    snap          \* the infection's fields after the first of two derivations

vars == <<disease, trajectory, inf, host, clock, last, calls, pc, snap>>

(***************************************************************************)
(* Constants of the program and bounds of the model                        *)
(***************************************************************************)
NEVER == -1

InfectivityThreshold == 0
SymptomaticityThreshold == 0
Epidemic_offset == 1
MultpDen == 2

MaxLen == 1        \* every trajectory up to this length is tried
MaxTail == 2       \* days simulated after the end of the trajectory
MaxCalls == 1      \* calls other than update() made on one infection
MaxTrajLen == MaxLen + 3   \* longest trajectory a reshape may produce

Kinds == {"become_infectious", "become_symptomatic", "become_asymptomatic",
          "recover", "become_unsusceptible"}

Point(i, s) == [infectivity |-> i, symptomaticity |-> s]
Points == {Point(i, s) : i \in 0..1, s \in 0..1}

RECURSIVE SeqsUpTo(_, _)
SeqsUpTo(S, n) ==
    IF n = 0 THEN {<<>>}
    ELSE LET shorter == SeqsUpTo(S, n - 1)
         IN  shorter \cup {Append(q, x) : q \in {r \in shorter : Len(r) = n - 1}, x \in S}

\* typical courses: latent, asymptomatic-infective, symptomatic; symptoms from
\* the first infective day; infective without symptoms; symptoms after infectivity
Courses ==
    {<<Point(0, 0), Point(1, 0), Point(1, 1)>>,
     <<Point(0, 0), Point(1, 1), Point(1, 1)>>,
     <<Point(1, 0), Point(1, 0), Point(0, 0)>>,
     <<Point(1, 0), Point(0, 0), Point(0, 1)>>}

Trajectories == SeqsUpTo(Points, MaxLen) \cup Courses

DailyTrajectories == SeqsUpTo(Points, MaxLen + 2)

\* offsets 0..9; 2..3 asymptomatic-infective, 4..6 symptomatic and infective
ScenarioTrajectory ==
    [i \in 1..10 |-> IF i - 1 \in 2..3 THEN Point(1, 0)
                     ELSE IF i - 1 \in 4..6 THEN Point(1, 1)
                     ELSE Point(0, 0)]

Disease(name, days_recovered, case_fatality) ==
    [name |-> name, days_recovered |-> days_recovered, days_symp |-> 2,
     case_fatality |-> case_fatality]

Diseases ==
    {Disease("influenza", -1, FALSE), Disease("influenza", 1, TRUE),
     Disease("hiv", 0, FALSE)}

DailyDiseases ==
    {Disease(n, d, f) : n \in {"influenza", "hiv"}, d \in -1..1, f \in BOOLEAN}

ExposureDays == 0..1

Multps == {-2, 0, 1, 4}

\* the trajectories setTrajectory is called with
Replacements == {<<>>, <<Point(0, 0), Point(1, 0), Point(1, 1)>>}

(***************************************************************************)
(* Trajectory: the interface the infection consumes                        *)
(***************************************************************************)
get_data_point(traj, t) ==
    IF t >= 0 /\ t < Len(traj) THEN traj[t + 1] ELSE Point(0, 0)

Clamp(x, lo, hi) == IF x < lo THEN lo ELSE IF x > hi THEN hi ELSE x

Pad(n, p) == [i \in 1..n |-> p]

\* the curve ends at offset startDate + days_left
modify_symp_period(traj, startDate, days_left) ==
    LET end_date == startDate + days_left
    IN  IF end_date <= Len(traj)
        THEN SubSeq(traj, 1, Clamp(end_date, 0, Len(traj)))
        ELSE traj \o Pad(end_date - Len(traj), Point(1, 1))

\* the asymptomatic span that ran up to sympDate now runs up to startDate + days_left
modify_asymp_period(traj, startDate, days_left, sympDate) ==
    LET end_date == Clamp(startDate + days_left, 0, Len(traj))
        symp     == Clamp(sympDate, 0, Len(traj))
    IN  IF startDate + days_left < sympDate
        THEN SubSeq(traj, 1, end_date) \o SubSeq(traj, symp + 1, Len(traj))
        ELSE SubSeq(traj, 1, symp)
                 \o Pad(startDate + days_left - sympDate, Point(1, 0))
                 \o SubSeq(traj, symp + 1, Len(traj))

\* symptoms last sympPeriod days from sympDate on and are absent afterwards
modify_develops_symp(traj, sympDate, sympPeriod) ==
    [i \in 1..Len(traj) |->
        IF i - 1 < sympDate THEN traj[i]
        ELSE IF i - 1 < sympDate + sympPeriod
             THEN Point(traj[i].infectivity, 1)
             ELSE Point(traj[i].infectivity, 0)]

(***************************************************************************)
(* Infection::Infection and Infection::set_transition_dates                *)
(***************************************************************************)
Truncate(n, multp) == (n * multp) \div MultpDen

\* one pass of the loop body, for the point at offset cur
ScanPoint(s, traj, cur) ==
    LET p            == get_data_point(traj, cur)
        infective    == p.infectivity > InfectivityThreshold
        symptomatic  == p.symptomaticity > SymptomaticityThreshold
        asymptomatic == infective /\ ~symptomatic
        s1 == IF infective /\ s.was_latent
              THEN [s EXCEPT !.infectious_start_date = s.exposure_date + cur,
                             !.asymptomatic_date =
                                 IF asymptomatic /\ s.was_latent
                                 THEN s.exposure_date + cur
                                 ELSE s.asymptomatic_date,
                             !.was_latent = FALSE]
              ELSE s
        s2 == IF infective
              THEN [s1 EXCEPT !.infectious_end_date = s.exposure_date + cur + 1]
              ELSE s1
        s3 == IF symptomatic /\ s2.was_incubating
              THEN [s2 EXCEPT !.symptoms_start_date = s.exposure_date + cur,
                              !.will_be_symptomatic = TRUE,
                              !.was_incubating = FALSE]
              ELSE s2
        s4 == IF symptomatic
              THEN [s3 EXCEPT !.symptomatic_period = s3.symptomatic_period + 1,
                              !.symptoms_end_date = s.exposure_date + cur + 1]
              ELSE s3
    IN  IF asymptomatic
        THEN [s4 EXCEPT !.asymptomatic_period = s4.asymptomatic_period + 1]
        ELSE s4

RECURSIVE Scan(_, _, _)
Scan(s, traj, cur) ==
    IF cur >= Len(traj) THEN s ELSE Scan(ScanPoint(s, traj, cur), traj, cur + 1)

\* mutant: the day counters are not reset
ResetDatesKeepCounters(i) ==
    [i EXCEPT !.infectious_start_date = NEVER,
              !.infectious_end_date = NEVER,
              !.symptoms_start_date = NEVER,
              !.symptoms_end_date = NEVER,
              !.asymptomatic_date = NEVER]

\* mutant: only the start dates are reset
ResetDatesStartOnly(i) ==
    [i EXCEPT !.asymptomatic_period = 0,
              !.symptomatic_period = 0,
              !.infectious_start_date = NEVER,
              !.symptoms_start_date = NEVER,
              !.asymptomatic_date = NEVER]

ResetDates(i) ==
    [i EXCEPT !.asymptomatic_period = 0,
              !.symptomatic_period = 0,
              !.infectious_start_date = NEVER,
              !.infectious_end_date = NEVER,
              !.symptoms_start_date = NEVER,
              !.symptoms_end_date = NEVER,
              !.asymptomatic_date = NEVER]

\* mutant: a recovery period of zero days counts as no waning
ImmunityEndPositive(infectious_end_date, recovery_period) ==
    IF recovery_period > 0 THEN infectious_end_date + recovery_period ELSE NEVER

ImmunityEnd(infectious_end_date, recovery_period) ==
    IF recovery_period > -1 THEN infectious_end_date + recovery_period ELSE NEVER

Locals == [was_latent |-> TRUE, was_incubating |-> TRUE]

set_transition_dates(i, traj, dis) ==
    LET s == Scan(ResetDates(i) @@ Locals, traj, 0)
        f == [k \in DOMAIN i |-> s[k]]
    IN  [f EXCEPT !.immunity_end_date =
                      ImmunityEnd(f.infectious_end_date, dis.days_recovered)]

Constructed(day) ==
    [is_susceptible |-> TRUE,
     infectivity |-> 0,
     symptoms |-> 0,
     asymptomatic_period |-> 0,
     symptomatic_period |-> 0,
     exposure_date |-> day,
     infectious_start_date |-> -1,
     infectious_end_date |-> -1,
     symptoms_start_date |-> -1,
     symptoms_end_date |-> -1,
     asymptomatic_date |-> -1,
     immunity_end_date |-> -1,
     will_be_symptomatic |-> FALSE,
     infection_is_fatal_today |-> FALSE]

Infection(dis, traj, day) == set_transition_dates(Constructed(day), traj, dis)

NoCall == [op |-> "Infection", multp |-> 0, today |-> 0, failed |-> FALSE, fired |-> {}]

NewHost == [infectious |-> FALSE, notified |-> [k \in Kinds |-> <<>>]]

Init ==
    /\ disease \in Diseases
    /\ trajectory \in Trajectories
    /\ \E day \in ExposureDays :
          /\ inf = Infection(disease, trajectory, day)
          /\ clock = day
    /\ host = NewHost
    /\ last = NoCall
    /\ calls = 0
    /\ pc = "run"
    /\ snap = inf

(***************************************************************************)
(* Host notifications                                                      *)
(***************************************************************************)
\* the host records each notification; infectious-onset and recovery set and
\* clear the flag that Person::is_infectious reports
Notify(h, kinds, day) ==
    [infectious |-> IF "recover" \in kinds THEN FALSE
                    ELSE IF "become_infectious" \in kinds THEN TRUE
                    ELSE h.infectious,
     notified |-> [k \in Kinds |-> IF k \in kinds THEN Append(h.notified[k], day)
                                   ELSE h.notified[k]]]

get_unsusceptible_date(i) == i.immunity_end_date

(***************************************************************************)
(* Infection::update and Infection::chronic_update                         *)
(***************************************************************************)
\* mutant: the chronic onset is sent from the third day after exposure
chronic_updateFromDay3(i, h, today) ==
    IF today - i.exposure_date >= 3 /\ h.infectious = FALSE
    THEN {"become_infectious"}
    ELSE {}

chronic_update(i, h, today) ==
    IF today - i.exposure_date > 3 /\ h.infectious = FALSE
    THEN {"become_infectious"}
    ELSE {}

\* mutant: infectious-onset is sent on every day from its date on
UpdateFiresFrom(i, today) ==
    (IF today >= i.infectious_start_date THEN {"become_infectious"} ELSE {})
    \cup (IF today = i.symptoms_start_date THEN {"become_symptomatic"} ELSE {})
    \cup (IF today = i.symptoms_end_date THEN {"become_asymptomatic"} ELSE {})
    \cup (IF today = i.infectious_end_date THEN {"recover"} ELSE {})
    \cup (IF today = i.immunity_end_date THEN {"become_unsusceptible"} ELSE {})

\* mutant: symptom-offset is not sent on the day of recovery
UpdateFiresElse(i, today) ==
    (IF today = i.infectious_start_date THEN {"become_infectious"} ELSE {})
    \cup (IF today = i.symptoms_start_date THEN {"become_symptomatic"} ELSE {})
    \cup (IF today = i.infectious_end_date THEN {"recover"}
          ELSE IF today = i.symptoms_end_date THEN {"become_asymptomatic"} ELSE {})
    \cup (IF today = i.immunity_end_date THEN {"become_unsusceptible"} ELSE {})

\* the notifications update(today) sends, by date equality
UpdateFires(i, today) ==
    (IF today = i.infectious_start_date THEN {"become_infectious"} ELSE {})
    \cup (IF today = i.symptoms_start_date THEN {"become_symptomatic"} ELSE {})
    \cup (IF today = i.symptoms_end_date THEN {"become_asymptomatic"} ELSE {})
    \cup (IF today = i.infectious_end_date THEN {"recover"} ELSE {})
    \cup (IF today = get_unsusceptible_date(i) THEN {"become_unsusceptible"} ELSE {})

is_infectious(i) == i.infectivity > InfectivityThreshold

is_symptomatic(i) == i.symptoms > SymptomaticityThreshold

\* mutant: the fatality decision is asked for whether or not it is enabled
fatality_consultedAlways(i, dis) == is_symptomatic(i)

\* whether update() asks the Disease for its fatality decision (is_fatal)
fatality_consulted(i, dis) == dis.case_fatality /\ is_symptomatic(i)

\* the live values update(today) reads from the trajectory
Live(i, traj, today) ==
    LET p == get_data_point(traj, today - i.exposure_date)
    IN  [i EXCEPT !.infectivity = p.infectivity, !.symptoms = p.symptomaticity]

\* mutant: the susceptibility flag is cleared on every day from the date on
updateFrom(i, traj, dis, today, is_fatal) ==
    LET i1 == Live(i, traj, today)
        i2 == IF today >= get_unsusceptible_date(i1)
              THEN [i1 EXCEPT !.is_susceptible = FALSE]
              ELSE i1
    IN  IF fatality_consulted(i2, dis) /\ is_fatal
        THEN [i2 EXCEPT !.infection_is_fatal_today = TRUE]
        ELSE i2

\* mutant: the trajectory is read one day ahead
updateAhead(i, traj, dis, today, is_fatal) ==
    LET i1 == Live(i, traj, today + 1)
        i2 == IF today = get_unsusceptible_date(i1)
              THEN [i1 EXCEPT !.is_susceptible = FALSE]
              ELSE i1
    IN  IF fatality_consulted(i2, dis) /\ is_fatal
        THEN [i2 EXCEPT !.infection_is_fatal_today = TRUE]
        ELSE i2

\* the fields after update(today); is_fatal is the Disease's decision
update(i, traj, dis, today, is_fatal) ==
    LET i1 == Live(i, traj, today)
        i2 == IF today = get_unsusceptible_date(i1)
              THEN [i1 EXCEPT !.is_susceptible = FALSE]
              ELSE i1
    IN  IF fatality_consulted(i2, dis) /\ is_fatal
        THEN [i2 EXCEPT !.infection_is_fatal_today = TRUE]
        ELSE i2

\* what update(today) did: its notifications, whether it asked for the fatality
\* decision and, if so, with which days_symptomatic
Updated(fired, today, consulted, days_symptomatic) ==
    [op |-> "update", multp |-> 0, today |-> today, failed |-> FALSE, fired |-> fired,
     consulted |-> consulted,
     days_symptomatic |-> IF consulted THEN days_symptomatic ELSE 0]

Update ==
    /\ pc = "run"
    /\ clock <= inf.exposure_date + Len(trajectory) + MaxTail
    /\ \E is_fatal \in BOOLEAN :
          IF disease.name = "hiv"
          THEN /\ inf' = inf
               /\ host' = Notify(host, chronic_update(inf, host, clock), clock)
               /\ last' = Updated(chronic_update(inf, host, clock), clock, FALSE, 0)
          ELSE /\ inf' = update(inf, trajectory, disease, clock, is_fatal)
               /\ host' = Notify(host, UpdateFires(inf, clock), clock)
               /\ last' = Updated(UpdateFires(inf, clock), clock,
                                  fatality_consulted(Live(inf, trajectory, clock), disease),
                                  clock - inf.symptoms_start_date)
    /\ clock' = clock + 1
    /\ UNCHANGED <<disease, trajectory, calls, pc, snap>>

(***************************************************************************)
(* Infection::setTrajectory                                                *)
(***************************************************************************)
setTrajectory(i, dis, _trajectory) == set_transition_dates(i, _trajectory, dis)

SetTrajectory ==
    /\ pc = "run"
    /\ \E _trajectory \in Replacements :
          /\ trajectory' = _trajectory
          /\ inf' = setTrajectory(inf, disease, _trajectory)
    /\ last' = [op |-> "setTrajectory", multp |-> 0, today |-> clock, failed |-> FALSE,
                fired |-> {}]
    /\ calls < MaxCalls
    /\ calls' = calls + 1
    /\ UNCHANGED <<disease, host, clock, pc, snap>>

(***************************************************************************)
(* Infection::advance_seed_infection                                       *)
(***************************************************************************)
AdvanceFires(i) ==
    (IF i.infectious_start_date <= 0 + Epidemic_offset THEN {"become_infectious"} ELSE {})
    \cup (IF i.symptoms_start_date <= 0 + Epidemic_offset THEN {"become_symptomatic"} ELSE {})
    \cup (IF i.infectious_end_date <= 0 + Epidemic_offset THEN {"recover"} ELSE {})
    \cup (IF get_unsusceptible_date(i) <= 0 + Epidemic_offset
          THEN {"become_unsusceptible"} ELSE {})

\* mutant: the exposure date is shifted and the dates are not derived again
advance_seed_infectionStale(i, traj, dis, days_to_advance) ==
    [i EXCEPT !.exposure_date = i.exposure_date - days_to_advance]

advance_seed_infection(i, traj, dis, days_to_advance) ==
    set_transition_dates([i EXCEPT !.exposure_date = i.exposure_date - days_to_advance],
                         traj, dis)

AdvanceSeedInfection ==
    /\ pc = "run"
    /\ inf.infectious_end_date # -1
    /\ inf.exposure_date # -1
    /\ \E days_to_advance \in 1..2 :
          /\ inf' = advance_seed_infection(inf, trajectory, disease, days_to_advance)
    /\ host' = Notify(host, AdvanceFires(inf'), Epidemic_offset)
    /\ last' = [op |-> "advance_seed_infection", multp |-> 0, today |-> clock,
                failed |-> FALSE, fired |-> AdvanceFires(inf')]
    /\ calls < MaxCalls
    /\ calls' = calls + 1
    /\ UNCHANGED <<disease, trajectory, clock, pc, snap>>

(***************************************************************************)
(* The Modification Layer.  Each operation yields the fields, the          *)
(* trajectory, and whether out_of_range was thrown.                        *)
(***************************************************************************)
Outcome(i, traj, failed) == [inf |-> i, trajectory |-> traj, failed |-> failed]

Rederived(i, traj, dis) == Outcome(set_transition_dates(i, traj, dis), traj, FALSE)

\* mutant: the day of recovery itself is still accepted
modify_symptomatic_periodLate(i, traj, dis, multp, today) ==
    IF multp < 0 THEN Outcome(i, traj, TRUE)
    ELSE IF today > i.infectious_end_date THEN Outcome(i, traj, TRUE)
    ELSE IF today < i.symptoms_start_date
    THEN Rederived(i, modify_symp_period(traj, i.symptoms_start_date,
                                         Truncate(i.symptomatic_period, multp)), dis)
    ELSE LET days_left == Truncate(i.infectious_end_date - today, multp)
         IN  Rederived(i, modify_symp_period(traj, today - i.exposure_date, days_left), dis)

modify_symptomatic_period(i, traj, dis, multp, today) ==
    IF multp < 0 THEN Outcome(i, traj, TRUE)
    ELSE IF today >= i.infectious_end_date THEN Outcome(i, traj, TRUE)
    ELSE IF today < i.symptoms_start_date
    THEN Rederived(i, modify_symp_period(traj, i.symptoms_start_date,
                                         Truncate(i.symptomatic_period, multp)), dis)
    ELSE LET days_left == Truncate(i.infectious_end_date - today, multp)
         IN  Rederived(i, modify_symp_period(traj, today - i.exposure_date, days_left), dis)

\* mutant: the multiplier is not checked
modify_asymptomatic_periodUnchecked(i, traj, dis, multp, today) ==
    IF today >= i.symptoms_start_date THEN Outcome(i, traj, TRUE)
    ELSE IF today < i.infectious_start_date
    THEN Rederived(i, modify_asymp_period(traj, i.exposure_date,
                                          Truncate(i.asymptomatic_period, multp),
                                          i.symptoms_start_date), dis)
    ELSE LET days_left == i.symptoms_start_date - today
         IN  Rederived(i, modify_asymp_period(traj, today - i.exposure_date,
                                              Truncate(days_left, multp),
                                              i.symptoms_start_date), dis)

modify_asymptomatic_period(i, traj, dis, multp, today) ==
    IF multp < 0 THEN Outcome(i, traj, TRUE)
    ELSE IF today >= i.symptoms_start_date THEN Outcome(i, traj, TRUE)
    ELSE IF today < i.infectious_start_date
    THEN Rederived(i, modify_asymp_period(traj, i.exposure_date,
                                          Truncate(i.asymptomatic_period, multp),
                                          i.symptoms_start_date), dis)
    ELSE LET days_left == i.symptoms_start_date - today
         IN  Rederived(i, modify_asymp_period(traj, today - i.exposure_date,
                                              Truncate(days_left, multp),
                                              i.symptoms_start_date), dis)

modify_infectious_period(i, traj, dis, multp, today) ==
    LET first == IF today < i.symptoms_start_date
                 THEN modify_asymptomatic_period(i, traj, dis, multp, today)
                 ELSE Outcome(i, traj, FALSE)
    IN  IF first.failed THEN first
        ELSE modify_symptomatic_period(first.inf, first.trajectory, dis, multp, today)

get_days_symp(dis) == dis.days_symp

\* mutant: the dates are not derived again after the reshape
modify_develops_symptomsStale(i, traj, dis, symptoms, today) ==
    IF (today >= i.symptoms_start_date /\ i.asymptomatic_date = -1)
       \/ today >= i.infectious_end_date
    THEN Outcome(i, traj, TRUE)
    ELSE IF i.will_be_symptomatic # symptoms
    THEN LET i1 == [i EXCEPT !.symptomatic_period =
                                 IF i.will_be_symptomatic THEN get_days_symp(dis) ELSE 0]
         IN  Outcome(i1, modify_develops_symp(traj, i1.symptoms_start_date,
                                              i1.symptomatic_period), FALSE)
    ELSE Outcome(i, traj, FALSE)

\* mutant: past the onset the call is refused for an episode with an asymptomatic onset
modify_develops_symptomsInverse(i, traj, dis, symptoms, today) ==
    IF (today >= i.symptoms_start_date /\ i.asymptomatic_date # -1)
       \/ today >= i.infectious_end_date
    THEN Outcome(i, traj, TRUE)
    ELSE IF i.will_be_symptomatic # symptoms
    THEN LET i1 == [i EXCEPT !.symptomatic_period =
                                 IF i.will_be_symptomatic THEN get_days_symp(dis) ELSE 0]
         IN  Rederived(i1, modify_develops_symp(traj, i1.symptoms_start_date,
                                                i1.symptomatic_period), dis)
    ELSE Outcome(i, traj, FALSE)

modify_develops_symptoms(i, traj, dis, symptoms, today) ==
    IF (today >= i.symptoms_start_date /\ i.asymptomatic_date = -1)
       \/ today >= i.infectious_end_date
    THEN Outcome(i, traj, TRUE)
    ELSE IF i.will_be_symptomatic # symptoms
    THEN LET i1 == [i EXCEPT !.symptomatic_period =
                                 IF i.will_be_symptomatic THEN get_days_symp(dis) ELSE 0]
         IN  Rederived(i1, modify_develops_symp(traj, i1.symptoms_start_date,
                                                i1.symptomatic_period), dis)
    ELSE Outcome(i, traj, FALSE)

\* a call of the Modification Layer at the current simulation day
Modified(op, multp, r) ==
    /\ pc = "run"
    /\ Len(r.trajectory) <= MaxTrajLen
    /\ inf' = r.inf
    /\ trajectory' = r.trajectory
    /\ last' = [op |-> op, multp |-> multp, today |-> clock, failed |-> r.failed,
                fired |-> {}]
    /\ calls < MaxCalls
    /\ calls' = calls + 1
    /\ UNCHANGED <<disease, host, clock, pc, snap>>

ModifySymptomaticPeriod ==
    \E multp \in Multps :
        Modified("modify_symptomatic_period", multp,
                 modify_symptomatic_period(inf, trajectory, disease, multp, clock))

ModifyAsymptomaticPeriod ==
    \E multp \in Multps :
        Modified("modify_asymptomatic_period", multp,
                 modify_asymptomatic_period(inf, trajectory, disease, multp, clock))

ModifyInfectiousPeriod ==
    \E multp \in Multps :
        Modified("modify_infectious_period", multp,
                 modify_infectious_period(inf, trajectory, disease, multp, clock))

ModifyDevelopsSymptoms ==
    \E symptoms \in BOOLEAN :
        Modified("modify_develops_symptoms", IF symptoms THEN 1 ELSE 0,
                 modify_develops_symptoms(inf, trajectory, disease, symptoms, clock))

\* the daily run of one infection from its construction, with no other call
InitDaily ==
    /\ \/ /\ disease \in DailyDiseases
          /\ trajectory \in DailyTrajectories
          /\ clock \in ExposureDays
       \/ /\ disease \in DailyDiseases
          /\ trajectory = ScenarioTrajectory
          /\ clock = 100
    /\ inf = Infection(disease, trajectory, clock)
    /\ host = NewHost
    /\ last = NoCall
    /\ calls = 0
    /\ pc = "run"
    /\ snap = inf

NextDaily == Update

SpecDaily == InitDaily /\ [][NextDaily]_vars

Next ==
    \/ Update
    \/ SetTrajectory
    \/ AdvanceSeedInfection
    \/ ModifySymptomaticPeriod
    \/ ModifyAsymptomaticPeriod
    \/ ModifyInfectiousPeriod
    \/ ModifyDevelopsSymptoms

Spec == Init /\ [][Next]_vars

(***************************************************************************)
(* Re-derivation on its own: set_transition_dates() run twice on an        *)
(* infection left in any state by an earlier derivation                    *)
(***************************************************************************)
DeriveTrajectories == DailyTrajectories \cup {ScenarioTrajectory}

DeriveDiseases == {Disease("influenza", d, FALSE) : d \in -1..1}

\* the fields an earlier derivation (of another trajectory) left behind
Priors(dis, day) == {Infection(dis, t, day) : t \in Courses \cup {<<>>}}

InitDerive ==
    /\ disease \in DeriveDiseases
    /\ trajectory \in DeriveTrajectories
    /\ \E day \in ExposureDays \cup {100} :
          /\ inf \in Priors(disease, day)
          /\ clock = day
    /\ host = NewHost
    /\ last = NoCall
    /\ calls = 0
    /\ pc = "fresh"
    /\ snap = inf

Derive ==
    /\ pc = "fresh"
    /\ inf' = set_transition_dates(inf, trajectory, disease)
    /\ snap' = inf'
    /\ pc' = "once"
    /\ UNCHANGED <<disease, trajectory, host, clock, last, calls>>

DeriveAgain ==
    /\ pc = "once"
    /\ inf' = set_transition_dates(inf, trajectory, disease)
    /\ pc' = "twice"
    /\ UNCHANGED <<disease, trajectory, host, clock, last, calls, snap>>

NextDerive == Derive \/ DeriveAgain

SpecDerive == InitDerive /\ [][NextDerive]_vars

(***************************************************************************)
(* What a trajectory contains, read off its points                         *)
(***************************************************************************)
Offsets(traj) == 0..(Len(traj) - 1)

InfectiveOffsets(traj) ==
    {k \in Offsets(traj) : traj[k + 1].infectivity > InfectivityThreshold}

SymptomaticOffsets(traj) ==
    {k \in Offsets(traj) : traj[k + 1].symptomaticity > SymptomaticityThreshold}

Least(S) == CHOOSE x \in S : \A y \in S : x <= y

Greatest(S) == CHOOSE x \in S : \A y \in S : x >= y

\* the transition date each notification belongs to
DateOf(i, k) ==
    CASE k = "become_infectious" -> i.infectious_start_date
      [] k = "become_symptomatic" -> i.symptoms_start_date
      [] k = "become_asymptomatic" -> i.symptoms_end_date
      [] k = "recover" -> i.infectious_end_date
      [] k = "become_unsusceptible" -> i.immunity_end_date

\* days on which update() has run: exposure_date .. clock - 1
Covered(t) == t >= inf.exposure_date /\ t < clock

OncePerTransition ==
    \A k \in Kinds :
        host.notified[k] =
            IF DateOf(inf, k) # NEVER /\ Covered(DateOf(inf, k))
            THEN <<DateOf(inf, k)>>
            ELSE <<>>

(***************************************************************************)
(* C1 (as stated).  In a run of update(t), once per day from exposure_date *)
(* on and with no other call, each notification has been sent exactly once *)
(* if its transition date is not never and is among the days covered, on   *)
(* that day, and on no other day.                                          *)
(***************************************************************************)
C1_AsStated == OncePerTransition

(***************************************************************************)
(* C1 (amended).  The same, for every disease other than the chronic       *)
(* ("hiv") one, whose update() takes the chronic_update path.              *)
(***************************************************************************)
C1_OncePerTransition == disease.name # "hiv" => OncePerTransition

C1_Witness ==
    /\ disease.name # "hiv"
    /\ \A k \in Kinds : Len(host.notified[k]) = 1
    /\ inf.symptoms_end_date < inf.infectious_end_date

(***************************************************************************)
(* C2.  After set_transition_dates() with exposure date E: the infectious  *)
(* and symptomatic spans start at E + the first and end at E + the last    *)
(* such offset + 1, the asymptomatic onset is the infectious start exactly *)
(* when the first infective point is not symptomatic, the two periods      *)
(* count the symptomatic and the infective-only points, and the immunity   *)
(* ends D days after infectious_end_date when D >= 0, never otherwise.     *)
(* The scenario (offsets 0..9, E = 100) gives 102, 102, 104, 107, 107 and  *)
(* 107 + D.                                                                *)
(***************************************************************************)
C2_TransitionDates ==
    pc \in {"once", "twice"} =>
        LET I == InfectiveOffsets(trajectory)
            S == SymptomaticOffsets(trajectory)
            E == inf.exposure_date
            D == disease.days_recovered
        IN  /\ I # {} => /\ inf.infectious_start_date = E + Least(I)
                         /\ inf.infectious_end_date = E + Greatest(I) + 1
                         /\ inf.asymptomatic_date =
                                IF Least(I) \notin S THEN inf.infectious_start_date
                                ELSE NEVER
            /\ I = {} => inf.asymptomatic_date = NEVER
            /\ S # {} => /\ inf.symptoms_start_date = E + Least(S)
                         /\ inf.symptoms_end_date = E + Greatest(S) + 1
            /\ inf.symptomatic_period = Cardinality(S)
            /\ inf.asymptomatic_period = Cardinality(I \ S)
            /\ inf.immunity_end_date =
                   IF D >= 0 THEN inf.infectious_end_date + D ELSE NEVER
            /\ (trajectory = ScenarioTrajectory /\ E = 100) =>
                   /\ inf.infectious_start_date = 102
                   /\ inf.asymptomatic_date = 102
                   /\ inf.symptoms_start_date = 104
                   /\ inf.infectious_end_date = 107
                   /\ inf.symptoms_end_date = 107
                   /\ inf.immunity_end_date = IF D >= 0 THEN 107 + D ELSE NEVER

C2_Witness ==
    /\ pc = "once"
    /\ trajectory = ScenarioTrajectory
    /\ inf.exposure_date = 100
    /\ disease.days_recovered = 0
    /\ inf.immunity_end_date = 107

(***************************************************************************)
(* C3.  set_transition_dates() is idempotent: a second run, with the       *)
(* trajectory, thresholds and exposure_date untouched, leaves every date,  *)
(* both day counters and will_be_symptomatic as the first run left them.   *)
(***************************************************************************)
C3_Idempotent == pc = "twice" => inf = snap

C3_Witness ==
    /\ pc = "twice"
    /\ inf.symptomatic_period = 2
    /\ inf.asymptomatic_period = 1
    /\ inf.exposure_date = 1

(***************************************************************************)
(* The Modification Layer: what a call did, seen across its step           *)
(***************************************************************************)
ScalingOps ==
    {"modify_symptomatic_period", "modify_asymptomatic_period", "modify_infectious_period"}

ModificationOps == ScalingOps \cup {"modify_develops_symptoms"}

\* this step is a call of op (every call other than update() is counted)
Called(op) == calls' = calls + 1 /\ last'.op = op

Untouched == inf' = inf /\ trajectory' = trajectory

DatesFields ==
    {"infectious_start_date", "infectious_end_date", "symptoms_start_date",
     "symptoms_end_date", "asymptomatic_date", "immunity_end_date",
     "asymptomatic_period", "symptomatic_period"}

Dates(i) == [f \in DatesFields |-> i[f]]

(***************************************************************************)
(* C4.  In every reachable state the infectious span is ordered            *)
(* (infectious_start_date <= infectious_end_date) when the trajectory has  *)
(* an infective point and both dates are never when it has none; likewise  *)
(* the symptomatic span and the symptomatic points.                        *)
(***************************************************************************)
C4_SpansOrdered ==
    LET I == InfectiveOffsets(trajectory)
        S == SymptomaticOffsets(trajectory)
    IN  /\ I # {} => inf.infectious_start_date <= inf.infectious_end_date
        /\ I = {} => inf.infectious_start_date = NEVER /\ inf.infectious_end_date = NEVER
        /\ S # {} => inf.symptoms_start_date <= inf.symptoms_end_date
        /\ S = {} => inf.symptoms_start_date = NEVER /\ inf.symptoms_end_date = NEVER

C4_Witness ==
    /\ last.op = "modify_symptomatic_period"
    /\ ~last.failed
    /\ inf.will_be_symptomatic
    /\ SymptomaticOffsets(trajectory) = {}
    /\ InfectiveOffsets(trajectory) # {}

(***************************************************************************)
(* C5.  After every operation that returns normally the stored dates and   *)
(* day counters are those set_transition_dates() computes from the current *)
(* trajectory and the current exposure_date.                               *)
(***************************************************************************)
C5_DatesCurrent ==
    ~last.failed => Dates(inf) = Dates(set_transition_dates(inf, trajectory, disease))

C5_Witness ==
    /\ last.op = "modify_develops_symptoms"
    /\ ~last.failed
    /\ last.multp = 0
    /\ inf.will_be_symptomatic
    /\ inf.symptomatic_period # 1

(***************************************************************************)
(* C6.  modify_symptomatic_period, modify_asymptomatic_period and          *)
(* modify_infectious_period called with multp < 0 fail, on any day and in  *)
(* any state, and leave the trajectory and every field unchanged.          *)
(***************************************************************************)
C6_NegativeMultiplier ==
    [][\A op \in ScalingOps :
           (Called(op) /\ last'.multp < 0) => (last'.failed /\ Untouched)]_vars

C6_Witness ==
    /\ last.op = "modify_infectious_period"
    /\ last.multp < 0
    /\ last.failed
    /\ last.today < inf.symptoms_start_date
    /\ last.today >= inf.infectious_start_date

(***************************************************************************)
(* C7.  Whenever an operation of the Modification Layer fails, the         *)
(* trajectory and every field of the infection are what they were before   *)
(* the call.                                                               *)
(***************************************************************************)
C7_FailureLeavesState ==
    [][\A op \in ModificationOps :
           (Called(op) /\ last'.failed) => Untouched]_vars

(***************************************************************************)
(* C8.  With multp >= 0, modify_symptomatic_period fails exactly when      *)
(* today >= infectious_end_date and modify_asymptomatic_period exactly     *)
(* when today >= symptoms_start_date; otherwise the trajectory is reshaped *)
(* and the dates are derived again from it.                                *)
(***************************************************************************)
SympReshapes(traj) ==
    {modify_symp_period(traj, a, b) : a \in -2..(MaxTrajLen + 1), b \in 0..(2 * MaxTrajLen + 2)}

AsympReshapes(traj) ==
    {modify_asymp_period(traj, a, b, c) :
        a \in -2..(MaxTrajLen + 1), b \in 0..(2 * MaxTrajLen + 2), c \in -1..(MaxTrajLen + 1)}

C8_FailsExactlyWhenPast ==
    [][/\ (Called("modify_symptomatic_period") /\ last'.multp >= 0) =>
              /\ last'.failed <=> clock >= inf.infectious_end_date
              /\ ~last'.failed =>
                     /\ trajectory' \in SympReshapes(trajectory)
                     /\ inf' = set_transition_dates(inf, trajectory', disease)
       /\ (Called("modify_asymptomatic_period") /\ last'.multp >= 0) =>
              /\ last'.failed <=> clock >= inf.symptoms_start_date
              /\ ~last'.failed =>
                     /\ trajectory' \in AsympReshapes(trajectory)
                     /\ inf' = set_transition_dates(inf, trajectory', disease)]_vars

C8_Witness ==
    /\ last.op = "modify_symptomatic_period"
    /\ last.multp = 1
    /\ ~last.failed
    /\ last.today = inf.exposure_date + 1
    /\ inf.infectious_end_date = last.today
    /\ Len(trajectory) = 1

(***************************************************************************)
(* C9.  For an infection whose will_be_symptomatic is true,                *)
(* modify_symptomatic_period(0, today) before symptom onset (and before    *)
(* the infectious end) succeeds and leaves will_be_symptomatic false.      *)
(***************************************************************************)
C9_NoLongerSymptomatic ==
    [][(/\ Called("modify_symptomatic_period")
        /\ last'.multp = 0
        /\ inf.will_be_symptomatic
        /\ clock < inf.symptoms_start_date
        /\ clock < inf.infectious_end_date)
       => (~last'.failed /\ ~inf'.will_be_symptomatic)]_vars

(***************************************************************************)
(* C10 (as stated).  When symptoms_end_date = infectious_end_date,         *)
(* update(t) on that day sends recover and not become_asymptomatic; in the *)
(* scenario become_infectious is sent once at 102, become_symptomatic once *)
(* at 104, recover at 107 and become_asymptomatic on no day.               *)
(***************************************************************************)
UpdatedOnRecoveryDay ==
    /\ disease.name # "hiv"
    /\ last.op = "update"
    /\ last.today = inf.infectious_end_date
    /\ inf.symptoms_end_date = inf.infectious_end_date

ScenarioRun ==
    /\ disease.name # "hiv"
    /\ trajectory = ScenarioTrajectory
    /\ inf.exposure_date = 100
    /\ clock = 108

C11_FatalityCheck ==
    /\ ~disease.case_fatality =>
          /\ ~inf.infection_is_fatal_today
          /\ last.op = "update" => ~last.consulted
    /\ (last.op = "update" /\ last.consulted) =>
          /\ disease.case_fatality
          /\ inf.symptoms > SymptomaticityThreshold
          /\ last.days_symptomatic = last.today - inf.symptoms_start_date
    /\ inf.infection_is_fatal_today =>
          disease.case_fatality /\ disease.name # "hiv"

\* the decision was asked for on the second symptomatic day and was fatal
C11_Witness ==
    /\ last.op = "update"
    /\ last.consulted
    /\ last.days_symptomatic = 1
    /\ inf.infection_is_fatal_today

(***************************************************************************)
(* C12.  As stated: neither update(t) nor advance_seed_infection(days)     *)
(* fires the notification of a transition whose date is never.             *)
(***************************************************************************)
C12_NeverNotFired ==
    last.op \in {"update", "advance_seed_infection"} =>
        \A k \in last.fired : DateOf(inf, k) # NEVER

(***************************************************************************)
(* C13.  For the chronic disease update(today) fires become_infectious     *)
(* exactly when today - exposure_date > 3 and the host is not infectious   *)
(* for the disease, fires nothing else, and changes no field of the        *)
(* infection (live values, susceptibility flag, fatal-today flag).         *)
(***************************************************************************)
C13_ChronicUpdate ==
    [][(disease.name = "hiv" /\ last'.op = "update" /\ clock' = clock + 1) =>
          /\ inf' = inf
          /\ trajectory' = trajectory
          /\ last'.fired = IF clock - inf.exposure_date > 3 /\ ~host.infectious
                           THEN {"become_infectious"}
                           ELSE {}
          /\ \A k \in Kinds :
                host'.notified[k] = IF k \in last'.fired
                                    THEN Append(host.notified[k], clock)
                                    ELSE host.notified[k]]_vars

\* the onset was sent on the fourth day after exposure and not again on the fifth
C13_Witness ==
    /\ disease.name = "hiv"
    /\ last.op = "update"
    /\ last.today = inf.exposure_date + 5
    /\ last.fired = {}
    /\ host.infectious
    /\ host.notified["become_infectious"] = <<inf.exposure_date + 4>>

(***************************************************************************)
(* C14.  As stated: modify_develops_symptoms fails when today >=           *)
(* infectious_end_date, and when today >= symptoms_start_date for an       *)
(* episode with an asymptomatic-infective phase; past the onset it         *)
(* succeeds for an episode without one, if today < infectious_end_date.    *)
(***************************************************************************)
C14_AsStated ==
    [][Called("modify_develops_symptoms") =>
          /\ clock >= inf.infectious_end_date => last'.failed
          /\ (/\ inf.symptoms_start_date # NEVER
              /\ clock >= inf.symptoms_start_date
              /\ inf.asymptomatic_period > 0) => last'.failed
          /\ (/\ inf.symptoms_start_date # NEVER
              /\ clock >= inf.symptoms_start_date
              /\ inf.asymptomatic_period = 0
              /\ clock < inf.infectious_end_date) => ~last'.failed]_vars

(***************************************************************************)
(* C14, amended.  modify_develops_symptoms fails when today >=             *)
(* infectious_end_date, and when today >= symptoms_start_date for an       *)
(* episode whose asymptomatic_date is never; past the onset it succeeds    *)
(* for an episode whose asymptomatic_date is a day, if today <             *)
(* infectious_end_date.                                                    *)
(***************************************************************************)
C14_FailsWithoutAsymptomaticDate ==
    [][Called("modify_develops_symptoms") =>
          /\ clock >= inf.infectious_end_date => last'.failed
          /\ (clock >= inf.symptoms_start_date /\ inf.asymptomatic_date = NEVER)
                => last'.failed
          /\ (/\ clock >= inf.symptoms_start_date
              /\ inf.asymptomatic_date # NEVER
              /\ clock < inf.infectious_end_date) => ~last'.failed]_vars

\* a legal call past the symptom onset (symptoms = true is the flag already:
\* the fields are those the call found)
C14_Witness ==
    /\ last.op = "modify_develops_symptoms"
    /\ ~last.failed
    /\ last.multp = 1
    /\ inf.will_be_symptomatic
    /\ inf.symptoms_start_date # NEVER
    /\ last.today >= inf.symptoms_start_date
    /\ inf.asymptomatic_date # NEVER

(***************************************************************************)
(* C15.  As stated: a legal modify_develops_symptoms(symptoms, today)      *)
(* changes nothing when symptoms equals will_be_symptomatic; otherwise it  *)
(* reshapes the trajectory with the disease's symptomatic duration when    *)
(* symptoms = true and with zero when symptoms = false, and derives the    *)
(* dates again.                                                            *)
(***************************************************************************)
C15_ForcedOrForbidden ==
    [][(Called("modify_develops_symptoms") /\ ~last'.failed) =>
          LET symptoms == last'.multp = 1
              period == IF symptoms THEN get_days_symp(disease) ELSE 0
              reshaped == modify_develops_symp(trajectory, inf.symptoms_start_date,
                                               period)
          IN  IF symptoms = inf.will_be_symptomatic
              THEN Untouched
              ELSE /\ trajectory' = reshaped
                   /\ inf' = set_transition_dates(inf, reshaped, disease)]_vars

(***************************************************************************)
(* C16.  As stated: modify_symptomatic_period(multp, today) with           *)
(* symptoms_start_date <= today < infectious_end_date and multp >= 0       *)
(* keeps, from offset today - exposure_date, (infectious_end_date - today) *)
(* * multp days (truncated), or 1 day when that is 0, so that              *)
(* infectious_end_date > today afterwards.                                 *)
(***************************************************************************)
C16_AtLeastOneDayLeft ==
    [][(/\ Called("modify_symptomatic_period")
        /\ ~last'.failed
        /\ inf.symptoms_start_date # NEVER
        /\ inf.symptoms_start_date <= clock) =>
          LET scaled == Truncate(inf.infectious_end_date - clock, last'.multp)
              days_left == IF scaled = 0 THEN 1 ELSE scaled
          IN  /\ trajectory' = modify_symp_period(trajectory,
                                                  clock - inf.exposure_date, days_left)
              /\ inf'.infectious_end_date > clock]_vars

C18_Susceptible ==
    /\ inf.is_susceptible
    /\ [][/\ inf'.is_susceptible # inf.is_susceptible =>
                /\ inf.is_susceptible
                /\ last'.op = "update"
                /\ clock' = clock + 1
                /\ clock = get_unsusceptible_date(inf)
                /\ "become_unsusceptible" \in last'.fired
          /\ (/\ last'.op = "update"
              /\ clock' = clock + 1
              /\ disease.name # "hiv"
              /\ clock = get_unsusceptible_date(inf)) => ~inf'.is_susceptible]_vars

\* cleared by an update, and a seed advance made afterwards left it false
C18_Witness ==
    /\ ~inf.is_susceptible
    /\ last.op = "advance_seed_infection"
    /\ Len(host.notified["become_unsusceptible"]) >= 1

C20_NeverInfectiousNeverImmune ==
    (disease.name # "hiv" /\ inf.infectious_end_date = NEVER) =>
        /\ inf.immunity_end_date = NEVER
        /\ host.notified["become_unsusceptible"] = <<>>
        /\ inf.is_susceptible

====
